---- MODULE Spec2Model ----
(***************************************************************************)
(* A model of the PTT crawler (src/src/ptt_crawler/crawler.py): the page   *)
(* fetcher with its retry loop, the pagination discovery, the two          *)
(* ThreadPoolExecutor fan-out stages and the joins between them; and of    *)
(* the UserAnonymiser (src/src/pipeline/anonymiser.py).                    *)
(*                                                                         *)
(* Specifications:                                                         *)
(*   SpecFetch    one call of _get_soup, one loop iteration per step       *)
(*   Spec         one call of crawl, from the entry page to the result     *)
(*   SpecCollect  the collection stage alone, pool of 1 or of 20 workers   *)
(*   SpecPool     one executor.map fan-out counted by task, up to more     *)
(*                tasks than the pool has workers                          *)
(*   SpecArgs     crawl called with an empty or a non-string argument      *)
(*   SpecStage    the extraction stage alone, over a wider set of pages    *)
(*   SpecContent  one worker running _get_content, its fetches step by step*)
(*   SpecExtract  _process_content, _get_content and _validate_contents    *)
(*                applied to one page or one candidate record              *)
(*   SpecOrder    both stages of crawl with the order in which the tasks   *)
(*                finish observed                                          *)
(*   SpecAnon     one UserAnonymiser: construction, then anonymise_name,   *)
(*                deanonymise_id and load_mapping calls                    *)
(***************************************************************************)
EXTENDS Integers, Sequences, FiniteSets, TLC

VARIABLES
    fetch,          \* the running call of _get_soup (SpecFetch)
    subforum,       \* the argument of crawl
    pc,             \* position of crawl
    requested,      \* the kinds of URL a GET was issued for, so far
    init_page, final_page_url, total_pages,    \* locals of crawl
    max_workers,    \* size of the pool of the running stage
    tasks,          \* arguments submitted to executor.map, in order
    started,        \* how many of them a worker has taken from the queue
    running,        \* indexes of the tasks a worker is executing
    results,        \* the futures: index -> return value, once finished
    served,         \* index -> what the task's fetch gave (extraction)
    open_collect,   \* collection tasks submitted and not finished yet
    content_urls,   \* the flattened URL list
    data,           \* the records kept at the second join
    pool,           \* counters of one fan-out (SpecPool)
    extraction,     \* one post page and the calls made on it (SpecExtract)
    completed,      \* indexes of the finished tasks of the stage, in the
                    \* order they finished, when it is observed (SpecOrder)
    anon            \* one UserAnonymiser and its last call (SpecAnon)

vars == <<fetch, subforum, pc, requested, init_page, final_page_url,
          total_pages, max_workers, tasks, started, running, results, served,
          open_collect, content_urls, data, pool, extraction, completed,
          anon>>

crawlVars == <<subforum, pc, requested, init_page, final_page_url,
               total_pages, max_workers, tasks, started, running, results,
               served, open_collect, content_urls, data, completed>>

\* Python's None, and a value that is not None.
None == <<>>
Some(x) == <<x>>

(***************************************************************************)
(* Bounds.                                                                 *)
(***************************************************************************)
MaxRetries == 4        \* largest max_retries argument tried
MaxHrefLen == 3        \* tokens in an href of the entry page
MaxAnchors == 2        \* "btn wide" anchors on the entry page
MaxPages == 3          \* largest page count the entry page announces
MaxBlocks == 2         \* title blocks on an index page
MaxUrls == 3           \* title blocks served by all index pages together
MaxExtraTasks == 2     \* tasks beyond the pool size (SpecPool)

(***************************************************************************)
(* Sequence helpers.                                                       *)
(***************************************************************************)
SeqsUpTo(S, n) == UNION {[1..k -> S] : k \in 0..n}

Range(s) == {s[i] : i \in 1..Len(s)}

RECURSIVE Concat(_)
Concat(ss) == IF ss = <<>> THEN <<>> ELSE Head(ss) \o Concat(Tail(ss))

(***************************************************************************)
(* Page fetcher: _get_soup.                                                *)
(* An attempt ends in one of six ways: the response is parsed ("ok"),      *)
(* raise_for_status raises HTTPError with status 404 ("404") or another    *)
(* status ("http_error"), or requests.get raises another RequestException  *)
(* ("timeout", "connection_error", or "invalid_url" when the URL cannot be *)
(* requested at all).  soup is the number of the response that was parsed, *)
(* trace the calls of requests.get and of time.sleep in the order made.    *)
(***************************************************************************)
Outcomes ==
    {"ok", "404", "http_error", "timeout", "connection_error", "invalid_url"}

\* The failures the loop retries: every one but the 404.
Transient == {"http_error", "timeout", "connection_error", "invalid_url"}

\* Mutant: the loop runs once even when max_retries is not positive.
GetSoupBeginAtLeastOnce(m) ==
    [max_retries |-> m, attempt |-> 0, requests |-> 0, sleeps |-> 0,
     outcomes |-> <<>>, error |-> None, soup |-> None, trace |-> <<>>,
     status |-> "running"]

\* The call before its first loop iteration; range(max_retries) is empty
\* for max_retries <= 0 and the function then falls off its end.
GetSoupBegin(m) ==
    [max_retries |-> m, attempt |-> 0, requests |-> 0, sleeps |-> 0,
     outcomes |-> <<>>, error |-> None, soup |-> None, trace |-> <<>>,
     status |-> IF m > 0 THEN "running" ELSE "returned_none"]

\* Mutant: the last attempt sleeps and loops instead of raising.
GetSoupStepNoFinalRaise(f, o) ==
    LET g == [f EXCEPT !.requests = @ + 1, !.outcomes = Append(@, o),
                       !.trace = Append(@, "get")]
    IN  CASE o = "ok"  -> [g EXCEPT !.status = "returned",
                                    !.soup = Some(g.requests)]
          [] o = "404" -> [g EXCEPT !.status = "raised", !.error = Some(o)]
          [] OTHER     ->
                IF f.attempt < f.max_retries - 1
                THEN [g EXCEPT !.sleeps = @ + 1, !.attempt = @ + 1,
                               !.trace = Append(@, "sleep")]
                ELSE [g EXCEPT !.status = "returned_none"]

\* Mutant: a 404 is retried like every other HTTP error.
GetSoupStepRetry404(f, o) ==
    LET g == [f EXCEPT !.requests = @ + 1, !.outcomes = Append(@, o),
                       !.trace = Append(@, "get")]
    IN  CASE o = "ok"  -> [g EXCEPT !.status = "returned",
                                    !.soup = Some(g.requests)]
          [] OTHER     ->
                IF f.attempt < f.max_retries - 1
                THEN [g EXCEPT !.sleeps = @ + 1, !.attempt = @ + 1,
                               !.trace = Append(@, "sleep")]
                ELSE [g EXCEPT !.status = "raised", !.error = Some(o)]

\* Mutant: the backoff is slept before the test of the attempt number, so
\* also after the last failed attempt.
GetSoupStepSleepsBeforeRaise(f, o) ==
    LET g == [f EXCEPT !.requests = @ + 1, !.outcomes = Append(@, o),
                       !.trace = Append(@, "get")]
        h == [g EXCEPT !.sleeps = @ + 1, !.trace = Append(@, "sleep")]
    IN  CASE o = "ok"  -> [g EXCEPT !.status = "returned",
                                    !.soup = Some(g.requests)]
          [] o = "404" -> [g EXCEPT !.status = "raised", !.error = Some(o)]
          [] OTHER     ->
                IF f.attempt < f.max_retries - 1
                THEN [h EXCEPT !.attempt = @ + 1]
                ELSE [h EXCEPT !.status = "raised", !.error = Some(o)]

\* Mutant: the loop gives up one attempt early.
GetSoupStepGivesUpEarly(f, o) ==
    LET g == [f EXCEPT !.requests = @ + 1, !.outcomes = Append(@, o),
                       !.trace = Append(@, "get")]
    IN  CASE o = "ok"  -> [g EXCEPT !.status = "returned",
                                    !.soup = Some(g.requests)]
          [] o = "404" -> [g EXCEPT !.status = "raised", !.error = Some(o)]
          [] OTHER     ->
                IF f.attempt < f.max_retries - 2
                THEN [g EXCEPT !.sleeps = @ + 1, !.attempt = @ + 1,
                               !.trace = Append(@, "sleep")]
                ELSE [g EXCEPT !.status = "raised", !.error = Some(o)]

\* One iteration of the for loop, the attempt ending with outcome o.
GetSoupStep(f, o) ==
    LET g == [f EXCEPT !.requests = @ + 1, !.outcomes = Append(@, o),
                       !.trace = Append(@, "get")]
    IN  CASE o = "ok"  -> [g EXCEPT !.status = "returned",
                                    !.soup = Some(g.requests)]
          [] o = "404" -> [g EXCEPT !.status = "raised", !.error = Some(o)]
          [] OTHER     ->
                IF f.attempt < f.max_retries - 1
                THEN [g EXCEPT !.sleeps = @ + 1, !.attempt = @ + 1,
                               !.trace = Append(@, "sleep")]
                ELSE [g EXCEPT !.status = "raised", !.error = Some(o)]

\* The whole call, the attempts ending as outs says, one after the other.
RECURSIVE GetSoupRun(_, _)
GetSoupRun(f, outs) ==
    IF outs = <<>> \/ f.status # "running" THEN f
    ELSE GetSoupRun(GetSoupStep(f, Head(outs)), Tail(outs))

\* The outcome sequences that end a call with max_retries = m, exactly.
FetchRuns(m) ==
    {outs \in SeqsUpTo(Outcomes, m) :
        LET f == GetSoupRun(GetSoupBegin(m), outs)
        IN  f.status # "running" /\ Len(f.outcomes) = Len(outs)}

\* Mutant: the body of a 404 response is handed on as the document.
GetSoupSafeParses404(f, doc) ==
    IF f.status = "returned" \/ f.error = Some("404") THEN doc ELSE None

\* _get_soup_safe: the document when _get_soup returns it, None when it
\* raises (or returns None); doc is the body of the successful response.
GetSoupSafe(f, doc) == IF f.status = "returned" THEN doc ELSE None

DEFAULT_MAX_RETRIES == 3

idleFetch == GetSoupBegin(0)

idlePool == [n |-> 0, queued |-> 0, in_flight |-> 0, between |-> 0, done |-> 0]

\* No post page is being extracted: page is the page as it was fetched,
\* bs_content the parsed tree the calls work on, outputs what the calls of
\* _process_content returned, returned what _get_content returned,
\* candidate a record handed to _validate_contents and verdict its answer.
idleExtraction ==
    [page |-> None, bs_content |-> None, outputs |-> <<>>, returned |-> None,
     candidate |-> None, verdict |-> None]

\* No UserAnonymiser exists.
idleAnon == [state |-> "none"]

\* The variables of crawl, no call of crawl being modelled.
CrawlIdle ==
    /\ subforum = None /\ pc = "idle" /\ requested = {}
    /\ init_page = None /\ final_page_url = None /\ total_pages = None
    /\ max_workers = 0 /\ tasks = <<>> /\ started = 0 /\ running = {}
    /\ results = <<>> /\ served = <<>> /\ open_collect = 0
    /\ content_urls = <<>> /\ data = <<>>
    /\ completed = None

(***************************************************************************)
(* Text.  A string is the sequence of its pieces: single characters, and   *)
(* the pieces "index" and ".html" of an href, which the pattern of         *)
(* _extract_total_pages reads as units.                                    *)
(***************************************************************************)
DigitChars == <<"0", "1", "2", "3", "4", "5", "6", "7", "8", "9">>

IsDigit(c) == \E d \in 1..10 : DigitChars[d] = c

DigitValue(c) == (CHOOSE d \in 1..10 : DigitChars[d] = c) - 1

\* int(digits): the decimal value of a run of digits.
RECURSIVE ParseInt(_)
ParseInt(ds) ==
    IF ds = <<>> THEN 0
    ELSE 10 * ParseInt(SubSeq(ds, 1, Len(ds) - 1)) + DigitValue(ds[Len(ds)])

\* The digits an f-string writes for a number >= 0.
RECURSIVE FormatInt(_)
FormatInt(n) ==
    IF n < 10 THEN <<DigitChars[n + 1]>>
    ELSE Append(FormatInt(n \div 10), DigitChars[(n % 10) + 1])

MAIN_URL == "https://www.ptt.cc/"

\* The argument of crawl: a str, or a value of another type (None), with
\* the text an f-string formats it to.
ArgStr(t) == [is_str |-> TRUE, text |-> t]
ArgNone == [is_str |-> FALSE, text |-> "None"]

\* f"{MAIN_URL}bbs/{subforum}"
EntryUrl(sf) == <<MAIN_URL, "bbs/", sf.text>>

\* f"{entry_url}/index{page_num}.html"
BulletinUrl(page_num, entry_url) ==
    entry_url \o <<"/index">> \o FormatInt(page_num) \o <<".html">>

(***************************************************************************)
(* Pagination discovery.                                                   *)
(***************************************************************************)
\* re.search(r"(?<=index)\d+(?=\.html)", s): the leftmost position that
\* follows "index" and starts a run of digits ending right before ".html";
\* the result is the matched digits, or None.
RegexSearchIndex(s) ==
    LET End(p) == CHOOSE q \in p..Len(s) :
                      /\ \A k \in p..q : IsDigit(s[k])
                      /\ (q = Len(s) \/ ~IsDigit(s[q + 1]))
        Matches(p) == /\ p > 1 /\ s[p - 1] = "index"
                      /\ IsDigit(s[p])
                      /\ End(p) < Len(s) /\ s[End(p) + 1] = ".html"
        P == {p \in 1..Len(s) : Matches(p)}
    IN  IF P = {} THEN None
        ELSE LET p == CHOOSE x \in P : \A y \in P : x <= y
             IN  Some(SubSeq(s, p, End(p)))

\* Mutant: the count is taken one too large.
ExtractTotalPagesOffByOne(url) ==
    LET match == RegexSearchIndex(url)
    IN  IF match = None THEN None
        ELSE LET n == ParseInt(match[1])
             IN  IF n <= 0 THEN None ELSE Some(n + 1)

\* _extract_total_pages: the page count, or None.
ExtractTotalPages(url) ==
    LET match == RegexSearchIndex(url)
    IN  IF match = None THEN None
        ELSE LET n == ParseInt(match[1])
             IN  IF n <= 0 THEN None ELSE Some(n)

\* The entry page, as crawl reads it: its <a class="btn wide"> anchors in
\* document order, each with whether its text contains the previous-page
\* label and with its href attribute (None when it has none).
NavAnchor(prev, href) == [prev |-> prev, href |-> href]

HrefPieces == {"index", ".html"} \cup {DigitChars[d + 1] : d \in 0..MaxPages}

\* The hrefs tried; the site has at most MaxPages pages.
Hrefs ==
    {h \in SeqsUpTo(HrefPieces, MaxHrefLen) :
        LET n == ExtractTotalPages(h) IN n = None \/ n[1] <= MaxPages}

OtherHref == <<"index", "1", ".html">>

\* The entry pages tried: other anchors in front of the first previous-page
\* anchor, any href on that one, and further previous-page anchors behind it.
EntryDocs ==
    LET plain == {NavAnchor(FALSE, Some(OtherHref))}
        behind == {NavAnchor(TRUE, Some(OtherHref))}
        first == {NavAnchor(TRUE, h) : h \in {None} \cup {Some(x) : x \in Hrefs}}
    IN  SeqsUpTo(plain, MaxAnchors) \cup
        {d \in {lead \o <<f>> \o rest :
                    lead \in SeqsUpTo(plain, MaxAnchors - 1), f \in first,
                    rest \in SeqsUpTo(behind, MaxAnchors - 1)} :
            Len(d) <= MaxAnchors}

\* Mutant: the first anchor is taken, whatever its text.
PrevAnchorAnyText(page) == IF page = <<>> THEN None ELSE Some(page[1])

\* The for/else of crawl: the first anchor whose text has the label, None
\* when the loop ends without a break.
PrevAnchor(page) ==
    IF \E i \in 1..Len(page) : page[i].prev
    THEN Some(page[CHOOSE i \in 1..Len(page) :
                      page[i].prev /\ \A j \in 1..(i - 1) : ~page[j].prev])
    ELSE None

(***************************************************************************)
(* URL collection: _get_all_content_urls.                                  *)
(***************************************************************************)
\* An index page, as the collector reads it: its <div class="title"> blocks
\* in document order, each with whether it holds an anchor and with the href
\* of that anchor (None when it has none).
TitleBlock(a, href) == [a |-> a, href |-> href]

PostHrefs == {<<"/bbs/KMT/M.1.html">>, <<"/bbs/KMT/M.2.html">>}

\* full_url = f"{MAIN_URL}{page_endpoint}"
PostUrls == {<<MAIN_URL>> \o h : h \in PostHrefs}

TitleBlocks ==
    {TitleBlock(FALSE, None), TitleBlock(TRUE, None)} \cup
    {TitleBlock(TRUE, Some(h)) : h \in PostHrefs}

IndexDocs == SeqsUpTo(TitleBlocks, MaxBlocks)

\* Mutant: the try statement is around the loop, the first block without
\* an anchor ends it.
RECURSIVE CollectBlocksStopAtError(_)
CollectBlocksStopAtError(blocks) ==
    IF blocks = <<>> THEN <<>>
    ELSE LET b == Head(blocks)
         IN  IF ~b.a THEN <<>>
             ELSE IF b.href # None
             THEN <<(<<MAIN_URL>> \o b.href[1])>>
                      \o CollectBlocksStopAtError(Tail(blocks))
             ELSE CollectBlocksStopAtError(Tail(blocks))

\* The loop over the title blocks: block.find("a") is None for a block with
\* no anchor, the AttributeError is caught and the block skipped; an anchor
\* with no href is skipped; every other block appends MAIN_URL + href.
RECURSIVE CollectBlocks(_)
CollectBlocks(blocks) ==
    IF blocks = <<>> THEN <<>>
    ELSE LET b == Head(blocks)
         IN  IF b.a /\ b.href # None
             THEN <<(<<MAIN_URL>> \o b.href[1])>> \o CollectBlocks(Tail(blocks))
             ELSE CollectBlocks(Tail(blocks))

\* _get_all_content_urls, given what _get_soup_safe returned for the page.
GetAllContentUrls(bulletin_page) ==
    IF bulletin_page = None THEN None
    ELSE Some(CollectBlocks(bulletin_page[1]))

\* Mutant: the comprehension stops at the first page that gave None.
FlattenUntilNone(lists) ==
    LET RECURSIVE F(_)
        F(ls) == IF ls = <<>> \/ Head(ls) = None THEN <<>>
                 ELSE Head(ls)[1] \o F(Tail(ls))
    IN  F(lists)

\* Mutant: a URL that is in the list already is not added again.
FlattenDedup(lists) ==
    LET RECURSIVE D(_, _)
        D(urls, seen) ==
            IF urls = <<>> THEN seen
            ELSE IF \E k \in 1..Len(seen) : seen[k] = Head(urls)
                 THEN D(Tail(urls), seen)
                 ELSE D(Tail(urls), Append(seen, Head(urls)))
        RECURSIVE F(_, _)
        F(ls, acc) == IF ls = <<>> THEN acc
                      ELSE IF Head(ls) = None THEN F(Tail(ls), acc)
                      ELSE F(Tail(ls), D(Head(ls)[1], acc))
    IN  F(lists, <<>>)

\* The comprehension of crawl: the URLs of the lists that are not None, in
\* the order of the lists (no URL is None: CollectBlocks appends strings).
Flatten(lists) ==
    LET RECURSIVE F(_)
        F(ls) == IF ls = <<>> THEN <<>>
                 ELSE IF Head(ls) = None THEN F(Tail(ls))
                 ELSE Head(ls)[1] \o F(Tail(ls))
    IN  F(lists)

(***************************************************************************)
(* Content extraction and validation.                                      *)
(* A post page is [main |-> None] or [main |-> Some(children)], children   *)
(* being the elements of <div id="main-content"> in document order.  An    *)
(* element has a class and parts, each part None or Some(text):            *)
(*   "article-metaline"  <<article-meta-tag, article-meta-value>>          *)
(*   "push"              <<push-tag, push-userid, push-content,            *)
(*                         push-ipdatetime>>                               *)
(*   "f2", "f6", "text"  <<text>>                                          *)
(* The characters of the labels and keywords are written in pinyin.        *)
(***************************************************************************)
Whitespace == {" ", "\n"}

RECURSIVE LStrip(_)
LStrip(t) == IF t # <<>> /\ Head(t) \in Whitespace THEN LStrip(Tail(t)) ELSE t

RECURSIVE RStrip(_)
RStrip(t) ==
    IF t # <<>> /\ t[Len(t)] \in Whitespace
    THEN RStrip(SubSeq(t, 1, Len(t) - 1)) ELSE t

\* str.strip()
Strip(t) == RStrip(LStrip(t))

\* kw in text
Contains(text, kw) ==
    \E i \in 1..(Len(text) - Len(kw) + 1) : SubSeq(text, i, i + Len(kw) - 1) = kw

LABEL_TITLE == <<"biao", "ti">>
LABEL_TIME == <<"shi", "jian">>
LABEL_AUTHOR == <<"zuo", "zhe">>

KW_ANNOUNCEMENT == <<"gong", "gao">>
KW_NEWS == <<"xin", "wen">>
KW_REPOST_1 == <<"zhuan", "lu">>
KW_REPOST_2 == <<"zhuan", "zai">>

TitleKeywords == {KW_ANNOUNCEMENT, KW_NEWS, KW_REPOST_1, KW_REPOST_2}
ContentKeywords == {KW_REPOST_1, KW_REPOST_2}

BENCHMARK_LEN == 10

Element(cls, parts) == [cls |-> cls, parts |-> parts]

OfClass(children, cls) == SelectSeq(children, LAMBDA e : e.cls = cls)

\* The value of the last metaline that has both spans and whose stripped
\* tag text is label; None when there is none.
RECURSIVE MetaValue(_, _)
MetaValue(metalines, label) ==
    IF metalines = <<>> THEN None
    ELSE LET m == metalines[Len(metalines)]
         IN  IF /\ m.parts[1] # None /\ m.parts[2] # None
                /\ Strip(m.parts[1][1]) = label
             THEN Some(Strip(m.parts[2][1]))
             ELSE MetaValue(SubSeq(metalines, 1, Len(metalines) - 1), label)

\* Mutant: a comment without a push-content span is dropped as well.
RECURSIVE GetCommentsNeedContent(_)
GetCommentsNeedContent(pushes) ==
    IF pushes = <<>> THEN <<>>
    ELSE LET e == Head(pushes)
             c == [push_tag |-> IF e.parts[1] # None
                                THEN Some(Strip(e.parts[1][1])) ELSE None,
                   userid |-> Strip(e.parts[2][1]),
                   content |-> Some(Strip(e.parts[3][1])),
                   ipdatetime |-> Strip(e.parts[4][1])]
         IN  IF e.parts[2] # None /\ e.parts[3] # None /\ e.parts[4] # None
             THEN <<c>> \o GetCommentsNeedContent(Tail(pushes))
             ELSE GetCommentsNeedContent(Tail(pushes))

\* _get_comments: the records of the push elements that have both a userid
\* and an ipdatetime span, in document order.
RECURSIVE GetComments(_)
GetComments(pushes) ==
    IF pushes = <<>> THEN <<>>
    ELSE LET e == Head(pushes)
             c == [push_tag |-> IF e.parts[1] # None
                                THEN Some(Strip(e.parts[1][1])) ELSE None,
                   userid |-> Strip(e.parts[2][1]),
                   content |-> IF e.parts[3] # None
                               THEN Some(Strip(e.parts[3][1])) ELSE None,
                   ipdatetime |-> Strip(e.parts[4][1])]
         IN  IF e.parts[2] # None /\ e.parts[4] # None
             THEN <<c>> \o GetComments(Tail(pushes))
             ELSE GetComments(Tail(pushes))

\* The second value of _get_comments: every push element scanned, retained
\* as a comment or not.
CommentDivs(children) == OfClass(children, "push")

\* Mutant: only the push elements retained as comments are removed.
RemovedRetainedOnly(e) ==
    \/ e.cls \in {"article-metaline", "f2", "f6"}
    \/ e.cls = "push" /\ e.parts[2] # None /\ e.parts[4] # None

\* The elements _process_content removes from the document before it reads
\* the text: the push elements, the metalines and the f2 and f6 spans.
Removed(e) == e.cls \in {"push", "article-metaline", "f2", "f6"}

\* The document once _process_content has run on it: the removed elements
\* are decomposed in the parsed tree itself, which the caller still holds.
Decomposed(bs_content) ==
    IF bs_content.main = None THEN bs_content
    ELSE [main |-> Some(SelectSeq(bs_content.main[1], LAMBDA e : ~Removed(e)))]

\* main_content.text: the text of the elements, in document order.
TextOf(children) ==
    Concat([i \in 1..Len(children) |->
              LET parts == children[i].parts
              IN  Concat([j \in 1..Len(parts) |->
                            IF parts[j] = None THEN <<>> ELSE parts[j][1]])])

\* _process_content: None without a main-content container, else the
\* candidate record; the content is the stripped text left once the push
\* elements, the metalines and the f2 and f6 spans are removed.  A field of
\* the record is None or Some(text).
ProcessContent(page_url, sf, bs_content) ==
    IF bs_content.main = None THEN None
    ELSE LET children == bs_content.main[1]
             article_metaline == OfClass(children, "article-metaline")
         IN  Some([author |-> MetaValue(article_metaline, LABEL_AUTHOR),
                   title |-> MetaValue(article_metaline, LABEL_TITLE),
                   time |-> MetaValue(article_metaline, LABEL_TIME),
                   content |->
                       Some(Strip(TextOf(Decomposed(bs_content).main[1]))),
                   url |-> page_url,
                   subforum |-> sf,
                   comments |-> GetComments(OfClass(children, "push"))])

\* contents.get("content") or "": an absent or empty content is "".
ContentText(contents) ==
    IF contents.content = None \/ contents.content[1] = <<>>
    THEN <<>> ELSE contents.content[1]

\* Mutant: only a missing title is tested, a missing time is let through.
ValidateRuleTitleOnly(contents) ==
    LET content_text == ContentText(contents)
    IN  IF contents.title = None THEN 1
        ELSE IF \E k \in TitleKeywords : Contains(contents.title[1], k) THEN 2
        ELSE IF Len(content_text) < BENCHMARK_LEN THEN 3
        ELSE IF \E k \in ContentKeywords : Contains(content_text, k) THEN 4
        ELSE 0

\* Mutant: a content of exactly benchmark_len characters is rejected.
ValidateRuleOffByOne(contents) ==
    LET content_text == ContentText(contents)
    IN  IF contents.title = None \/ contents.time = None THEN 1
        ELSE IF \E k \in TitleKeywords : Contains(contents.title[1], k) THEN 2
        ELSE IF Len(content_text) <= BENCHMARK_LEN THEN 3
        ELSE IF \E k \in ContentKeywords : Contains(content_text, k) THEN 4
        ELSE 0

\* Mutant: the length of the content is not tested.
ValidateRuleNoLength(contents) ==
    LET content_text == ContentText(contents)
    IN  IF contents.title = None \/ contents.time = None THEN 1
        ELSE IF \E k \in TitleKeywords : Contains(contents.title[1], k) THEN 2
        ELSE IF \E k \in ContentKeywords : Contains(content_text, k) THEN 4
        ELSE 0

\* Mutant: the content is not searched for the repost markers.
ValidateRuleNoContentKeywords(contents) ==
    LET content_text == ContentText(contents)
    IN  IF contents.title = None \/ contents.time = None THEN 1
        ELSE IF \E k \in TitleKeywords : Contains(contents.title[1], k) THEN 2
        ELSE IF Len(content_text) < BENCHMARK_LEN THEN 3
        ELSE 0

\* The if chain of _validate_contents: the number of the first test that
\* rejects the candidate, 0 when none does.
ValidateRule(contents) ==
    LET content_text == ContentText(contents)
    IN  IF contents.title = None \/ contents.time = None THEN 1
        ELSE IF \E k \in TitleKeywords : Contains(contents.title[1], k) THEN 2
        ELSE IF Len(content_text) < BENCHMARK_LEN THEN 3
        ELSE IF \E k \in ContentKeywords : Contains(content_text, k) THEN 4
        ELSE 0

\* _validate_contents
ValidateContents(contents) == ValidateRule(contents) = 0

\* Mutant: the candidate record is returned without validation.
GetContentUnvalidated(page_url, sf, content_page) ==
    IF content_page = None THEN None
    ELSE ProcessContent(page_url, sf, content_page[1])

\* _get_content, given what _get_soup_safe returned for the post page.
GetContent(page_url, sf, content_page) ==
    IF content_page = None THEN None
    ELSE LET output == ProcessContent(page_url, sf, content_page[1])
         IN  IF output # None /\ ValidateContents(output[1])
             THEN output ELSE None

\* The post pages the crawl is run on: a well-formed post with one comment,
\* an announcement, and a page with no main-content container.
Metaline(tag, value) == Element("article-metaline", <<Some(tag), Some(value)>>)

Body == [i \in 1..BENCHMARK_LEN |-> "a"]

\* A body one character short of the threshold, and one with a repost marker.
ShortBody == [i \in 1..(BENCHMARK_LEN - 1) |-> "a"]

RepostBody == KW_REPOST_1 \o [i \in 1..(BENCHMARK_LEN - 2) |-> "a"]

\* A body that mentions the news marker.
NewsBody == [i \in 1..(BENCHMARK_LEN - 2) |-> "a"] \o KW_NEWS

GoodPost ==
    [main |-> Some(<<Metaline(LABEL_AUTHOR, <<"u">>),
                     Metaline(LABEL_TITLE, <<"t">>),
                     Metaline(LABEL_TIME, <<"d">>),
                     Element("text", <<Some(Body)>>),
                     Element("f2", <<Some(<<"s">>)>>),
                     Element("push", <<Some(<<"+">>), Some(<<"v">>),
                                       Some(<<"c">>), Some(<<"d">>)>>)>>)]

AnnouncementPost ==
    [main |-> Some(<<Metaline(LABEL_TITLE, <<"[">> \o KW_ANNOUNCEMENT \o <<"]">>),
                     Metaline(LABEL_TIME, <<"d">>),
                     Element("text", <<Some(Body)>>)>>)]

NoMainPost == [main |-> None]

PostDocs == {GoodPost, AnnouncementPost, NoMainPost}

(***************************************************************************)
(* The worker pool: ThreadPoolExecutor(max_workers=20).  executor.map      *)
(* submits every task at once; the pool starts a worker thread only while  *)
(* it has fewer than max_workers, and each worker takes the tasks from the *)
(* queue in submission order, one at a time.                               *)
(***************************************************************************)
MAX_WORKERS == 20

\* Mutant: a worker is started for every task, whatever the pool size.
WorkerFreeUnbounded(busy, workers) == busy >= 0

\* A queued task starts only when fewer than max_workers tasks are running.
WorkerFree(busy, workers) == busy < workers

\* Mutant: the flow leaves the stage as soon as every task has started.
JoinReadyNoWait(n, nstarted, nrunning) == nstarted = n

\* The order in which the tasks finish, when it is observed: task i has
\* finished; a new stage starts.
Finished(order, i) == IF order = None THEN None ELSE Some(Append(order[1], i))

Restarted(order) == IF order = None THEN None ELSE Some(<<>>)

\* Mutant: the results are taken as the tasks complete (as_completed).
ExecutorMapAsCompleted(futures, order) ==
    IF order = None THEN futures
    ELSE [k \in 1..Len(order[1]) |-> futures[order[1][k]]]

\* list(executor.map(fn, iterable)): the results in the order of the
\* iterable, whatever the order in which the tasks completed.
ExecutorMap(futures, order) == futures

\* list(executor.map(...)) and the end of the with block: every task was
\* taken from the queue and none is running any more.
JoinReady(n, nstarted, nrunning) == nstarted = n /\ nrunning = 0

\* What _get_soup_safe returns to a task of the crawl: None, or one of the
\* pages of docs.  The crawl is run against attempts that succeed, time out
\* or get a 404.
CrawlOutcomes == {"ok", "404", "timeout"}

CrawlRuns ==
    {outs \in FetchRuns(DEFAULT_MAX_RETRIES) : Range(outs) \subseteq CrawlOutcomes}

CrawlCalls ==
    {GetSoupRun(GetSoupBegin(DEFAULT_MAX_RETRIES), outs) : outs \in CrawlRuns}

\* _get_soup_safe reads only how the call ended: one call per ending.
Fetched(docs) ==
    LET call(st) == CHOOSE f \in CrawlCalls : f.status = st
    IN  {GetSoupSafe(call(st), Some(d)) :
            st \in {f.status : f \in CrawlCalls}, d \in docs}

FetchedEntryPages == Fetched(EntryDocs)
FetchedIndexPages == Fetched(IndexDocs)
FetchedPostPages == Fetched(PostDocs)

(***************************************************************************)
(* SpecFetch: one call of _get_soup(url, max_retries), step by step.       *)
(***************************************************************************)
InitFetch ==
    /\ fetch \in {GetSoupBegin(m) : m \in -1..MaxRetries}
    /\ pool = idlePool
    /\ extraction = idleExtraction
    /\ anon = idleAnon
    /\ CrawlIdle

\* One attempt: requests.get, raise_for_status, and the handler that runs.
FetchAttempt ==
    /\ fetch.status = "running"
    /\ \E o \in Outcomes : fetch' = GetSoupStep(fetch, o)
    /\ UNCHANGED <<crawlVars, pool, extraction, anon>>

NextFetch == FetchAttempt

SpecFetch == InitFetch /\ [][NextFetch]_vars

AllTransient(outs) == \A i \in 1..Len(outs) : outs[i] \in Transient

\* C1: with max_retries >= 1, a fetch whose attempts all fail with a
\* transient failure has raised exactly when it has issued max_retries GET
\* requests, never issues more, and raises the failure of its last attempt.
C1_RetryBound ==
    (fetch.max_retries >= 1 /\ AllTransient(fetch.outcomes)) =>
        /\ fetch.requests = Len(fetch.outcomes)
        /\ fetch.requests <= fetch.max_retries
        /\ fetch.status \in {"running", "raised"}
        /\ (fetch.status = "raised") = (fetch.requests = fetch.max_retries)
        /\ (fetch.status = "raised" =>
                fetch.error = Some(fetch.outcomes[Len(fetch.outcomes)]))

C1_Witness ==
    /\ fetch.max_retries = 3
    /\ fetch.outcomes = <<"timeout", "http_error", "connection_error">>
    /\ fetch.status = "raised"
    /\ fetch.requests = 3

\* C2: a 404 ends the fetch at once: the 404 attempt is the last attempt,
\* the fetch has raised the 404, and the only sleeps are those that followed
\* the earlier, transient attempts.
C2_NotFoundImmediate ==
    \A i \in 1..Len(fetch.outcomes) :
        fetch.outcomes[i] = "404" =>
            /\ i = Len(fetch.outcomes)
            /\ fetch.status = "raised"
            /\ fetch.error = Some("404")
            /\ fetch.requests = i
            /\ fetch.sleeps = i - 1

C2_Witness ==
    /\ fetch.max_retries = 3
    /\ fetch.outcomes = <<"timeout", "404">>
    /\ fetch.status = "raised"
    /\ fetch.requests = 2
    /\ fetch.sleeps = 1

(***************************************************************************)
(* Spec: one call of crawl(subforum).                                      *)
(*   start -> discovered -> collect -> joined_urls -> extract -> done      *)
(* "aborted" is a return of None, "raised" an exception leaving crawl.     *)
(* A task's GET requests happen between its start and its finish; they are *)
(* recorded when the task finishes.                                        *)
(***************************************************************************)
Subforums == {ArgStr("KMT")}

NoFutures(n) == [i \in 1..n |-> None]

\* crawl(subforum) is entered: nothing was requested yet.
CrawlEntered ==
    /\ fetch = idleFetch
    /\ pool = idlePool
    /\ extraction = idleExtraction
    /\ anon = idleAnon
    /\ pc = "start" /\ requested = {}
    /\ init_page = None /\ final_page_url = None /\ total_pages = None
    /\ max_workers = 0 /\ tasks = <<>> /\ started = 0 /\ running = {}
    /\ results = <<>> /\ served = <<>> /\ open_collect = 0
    /\ content_urls = <<>> /\ data = <<>>
    /\ completed = None

InitCrawl == subforum \in Subforums /\ CrawlEntered

\* crawl, lines 32-53: the entry page is fetched and the page count read.
CrawlDiscover ==
    /\ pc = "start"
    /\ \E page \in FetchedEntryPages :
        /\ requested' = requested \cup {EntryUrl(subforum)}
        /\ init_page' = page
        /\ IF page = None \/ PrevAnchor(page[1]) = None
           THEN /\ pc' = "aborted"
                /\ UNCHANGED <<final_page_url, total_pages>>
           ELSE /\ final_page_url' = PrevAnchor(page[1])[1].href
                /\ IF final_page_url' = None
                   THEN pc' = "aborted" /\ UNCHANGED total_pages
                   ELSE /\ total_pages' = ExtractTotalPages(final_page_url'[1])
                        /\ pc' = "discovered"
    /\ UNCHANGED <<fetch, pool, extraction, anon, completed,
                   subforum, max_workers, tasks, started, running,
                   results, served, open_collect, content_urls, data>>

\* crawl, lines 56-62: range(1, total_pages + 1) is a TypeError when
\* _extract_total_pages returned None; else one task per page is submitted.
\* init_page and final_page_url are not read again.
CrawlSubmitCollect ==
    /\ pc = "discovered"
    /\ IF total_pages = None
       THEN /\ pc' = "raised"
            /\ UNCHANGED <<init_page, final_page_url, max_workers, tasks,
                           started, running, results, served, open_collect>>
       ELSE /\ pc' = "collect"
            /\ max_workers' = MAX_WORKERS
            /\ tasks' = [p \in 1..total_pages[1] |-> p]
            /\ started' = 0 /\ running' = {}
            /\ results' = NoFutures(total_pages[1])
            /\ served' = NoFutures(total_pages[1])
            /\ open_collect' = total_pages[1]
            /\ init_page' = None /\ final_page_url' = None
    /\ UNCHANGED <<fetch, pool, extraction, anon, completed,
                   subforum, requested, total_pages,
                   content_urls, data>>

\* A worker takes the next task from the queue.
StartTask ==
    /\ pc \in {"collect", "extract"}
    /\ started < Len(tasks)
    /\ WorkerFree(Cardinality(running), max_workers)
    /\ started' = started + 1
    /\ running' = running \cup {started + 1}
    /\ UNCHANGED <<fetch, pool, extraction, anon, completed,
                   subforum, pc, requested, init_page,
                   final_page_url, total_pages, max_workers, tasks, results,
                   served, open_collect, content_urls, data>>

\* The title blocks served so far, over all index pages.
RECURSIVE BlocksServed(_)
BlocksServed(pages) ==
    IF pages = <<>> THEN 0
    ELSE (IF Head(pages) = None THEN 0 ELSE Len(Head(pages)[1]))
         + BlocksServed(Tail(pages))

\* A collection task runs _get_all_content_urls(page_num, entry_url).
FinishCollect ==
    /\ pc = "collect"
    /\ \E i \in running, page \in FetchedIndexPages :
        /\ BlocksServed(served) + BlocksServed(<<page>>) <= MaxUrls
        /\ requested' = requested \cup {BulletinUrl(tasks[i], EntryUrl(subforum))}
        /\ served' = [served EXCEPT ![i] = page]
        /\ results' = [results EXCEPT ![i] = GetAllContentUrls(page)]
        /\ running' = running \ {i}
        /\ completed' = Finished(completed, i)
    /\ open_collect' = open_collect - 1
    /\ UNCHANGED <<fetch, pool, extraction, anon,
                   subforum, pc, init_page, final_page_url,
                   total_pages, max_workers, tasks, started, content_urls, data>>

\* crawl, lines 56-73: the first join, the flattening and the empty test.
CrawlJoinCollect ==
    /\ pc = "collect"
    /\ JoinReady(Len(tasks), started, Cardinality(running))
    /\ content_urls' = Flatten(ExecutorMap(results, completed))
    /\ pc' = IF content_urls' = <<>> THEN "aborted" ELSE "joined_urls"
    /\ UNCHANGED <<fetch, pool, extraction, anon, completed,
                   subforum, requested, init_page, final_page_url,
                   total_pages, max_workers, tasks, started, running, results,
                   served, open_collect, data>>

\* crawl, lines 77-78: one extraction task per collected URL is submitted.
\* total_pages and the per-page lists are not read again.
CrawlSubmitExtract ==
    /\ pc = "joined_urls"
    /\ pc' = "extract"
    /\ max_workers' = MAX_WORKERS
    /\ tasks' = content_urls
    /\ started' = 0 /\ running' = {}
    /\ results' = NoFutures(Len(content_urls))
    /\ served' = NoFutures(Len(content_urls))
    /\ total_pages' = None
    /\ completed' = Restarted(completed)
    /\ UNCHANGED <<fetch, pool, extraction, anon,
                   subforum, requested, init_page, final_page_url,
                   open_collect, content_urls, data>>

\* An extraction task runs _get_content(url, subforum); pages is what the
\* fetches of the stage may give.
FinishExtractOf(pages) ==
    /\ pc = "extract"
    /\ \E i \in running, page \in pages :
        /\ requested' = requested \cup {tasks[i]}
        /\ served' = [served EXCEPT ![i] = page]
        /\ results' = [results EXCEPT ![i] = GetContent(tasks[i], subforum, page)]
        /\ running' = running \ {i}
        /\ completed' = Finished(completed, i)
    /\ UNCHANGED <<fetch, pool, extraction, anon,
                   subforum, pc, init_page, final_page_url,
                   total_pages, max_workers, tasks, started, open_collect,
                   content_urls, data>>

FinishExtract == FinishExtractOf(FetchedPostPages)

\* The records of the results that are not None, in the order of the list.
RECURSIVE NotNone(_)
NotNone(items) ==
    IF items = <<>> THEN <<>>
    ELSE IF Head(items) = None THEN NotNone(Tail(items))
    ELSE <<Head(items)[1]>> \o NotNone(Tail(items))

\* crawl, lines 77-84: the second join, the filter and the empty test.
CrawlJoinExtract ==
    /\ pc = "extract"
    /\ JoinReady(Len(tasks), started, Cardinality(running))
    /\ data' = NotNone(ExecutorMap(results, completed))
    /\ pc' = IF data' = <<>> THEN "aborted" ELSE "done"
    /\ UNCHANGED <<fetch, pool, extraction, anon, completed,
                   subforum, requested, init_page, final_page_url,
                   total_pages, max_workers, tasks, started, running, results,
                   served, open_collect, content_urls>>

Next ==
    \/ CrawlDiscover
    \/ CrawlSubmitCollect
    \/ StartTask
    \/ FinishCollect
    \/ CrawlJoinCollect
    \/ CrawlSubmitExtract
    \/ FinishExtract
    \/ CrawlJoinExtract

Spec == InitCrawl /\ [][Next]_vars

\* crawl called with an argument that is not a sub-forum name: the empty
\* string, or None.
InvalidSubforums == {ArgStr(""), ArgNone}

InitArgs == subforum \in InvalidSubforums /\ CrawlEntered

SpecArgs == InitArgs /\ [][Next]_vars

(***************************************************************************)
(* SpecCollect: the collection stage alone, over N index pages, run with a *)
(* pool of one worker and with the pool of crawl.                          *)
(***************************************************************************)
InitCollect ==
    /\ fetch = idleFetch
    /\ pool = idlePool
    /\ extraction = idleExtraction
    /\ anon = idleAnon
    /\ subforum \in Subforums
    /\ pc = "collect" /\ requested = {}
    /\ init_page = None /\ final_page_url = None
    /\ max_workers \in {1, MAX_WORKERS}
    /\ \E n \in 1..MaxPages :
        /\ total_pages = Some(n)
        /\ tasks = [p \in 1..n |-> p]
        /\ results = NoFutures(n) /\ served = NoFutures(n)
        /\ open_collect = n
    /\ started = 0 /\ running = {}
    /\ content_urls = <<>> /\ data = <<>>
    /\ completed = None

NextCollect == StartTask \/ FinishCollect \/ CrawlJoinCollect

SpecCollect == InitCollect /\ [][NextCollect]_vars

(***************************************************************************)
(* SpecOrder: crawl from its first fan-out on, over N index pages, the     *)
(* order in which the tasks of each stage finish being observed.           *)
(***************************************************************************)
MaxOrderPages == 2

InitOrder ==
    /\ fetch = idleFetch
    /\ pool = idlePool
    /\ extraction = idleExtraction
    /\ anon = idleAnon
    /\ subforum \in Subforums
    /\ pc = "collect" /\ requested = {EntryUrl(subforum)}
    /\ init_page = None /\ final_page_url = None
    /\ max_workers = MAX_WORKERS
    /\ \E n \in 1..MaxOrderPages :
        /\ total_pages = Some(n)
        /\ tasks = [p \in 1..n |-> p]
        /\ results = NoFutures(n) /\ served = NoFutures(n)
        /\ open_collect = n
    /\ started = 0 /\ running = {}
    /\ content_urls = <<>> /\ data = <<>>
    /\ completed = Some(<<>>)

NextOrder ==
    \/ StartTask
    \/ FinishCollect
    \/ CrawlJoinCollect
    \/ CrawlSubmitExtract
    \/ FinishExtract
    \/ CrawlJoinExtract

SpecOrder == InitOrder /\ [][NextOrder]_vars

(***************************************************************************)
(* SpecStage: the extraction stage alone, on up to MaxPosts URLs, each     *)
(* fetch giving nothing or one of a wider set of post pages: posts with a  *)
(* blank title, a short body, a repost or a news marker in the body.       *)
(***************************************************************************)
MaxPosts == 2

BlankTitlePost ==
    [main |-> Some(<<Metaline(LABEL_TITLE, <<" ">>),
                     Metaline(LABEL_TIME, <<"d">>),
                     Element("text", <<Some(Body)>>)>>)]

ShortPost ==
    [main |-> Some(<<Metaline(LABEL_TITLE, <<"t">>),
                     Metaline(LABEL_TIME, <<"d">>),
                     Element("text", <<Some(<<" ">> \o ShortBody \o <<"\n">>)>>)>>)]

RepostBodyPost ==
    [main |-> Some(<<Metaline(LABEL_TITLE, <<"t">>),
                     Metaline(LABEL_TIME, <<"d">>),
                     Element("text", <<Some(RepostBody)>>)>>)]

NewsBodyPost ==
    [main |-> Some(<<Metaline(LABEL_TITLE, <<"t">>),
                     Metaline(LABEL_TIME, <<"d">>),
                     Element("text", <<Some(NewsBody)>>)>>)]

StageDocs ==
    PostDocs \cup {BlankTitlePost, ShortPost, RepostBodyPost, NewsBodyPost}

FetchedStagePages == Fetched(StageDocs)

InitStage ==
    /\ fetch = idleFetch
    /\ pool = idlePool
    /\ extraction = idleExtraction
    /\ anon = idleAnon
    /\ subforum \in Subforums
    /\ pc = "extract"
    /\ requested = {EntryUrl(subforum), BulletinUrl(1, EntryUrl(subforum))}
    /\ init_page = None /\ final_page_url = None /\ total_pages = None
    /\ max_workers = MAX_WORKERS
    /\ content_urls \in {u \in SeqsUpTo(PostUrls, MaxPosts) : u # <<>>}
    /\ tasks = content_urls
    /\ started = 0 /\ running = {}
    /\ results = NoFutures(Len(content_urls))
    /\ served = NoFutures(Len(content_urls))
    /\ open_collect = 0
    /\ data = <<>>
    /\ completed = None

FinishStage == FinishExtractOf(FetchedStagePages)

NextStage == StartTask \/ FinishStage \/ CrawlJoinExtract

SpecStage == InitStage /\ [][NextStage]_vars

(***************************************************************************)
(* SpecContent: one worker of the extraction pool runs _get_content on the *)
(* URLs it takes from the queue, one after the other, the fetch of each    *)
(* one attempt per step.  fetch is the call _get_soup_safe made for the    *)
(* last URL taken.                                                         *)
(***************************************************************************)
InitContent ==
    /\ fetch = idleFetch
    /\ pool = idlePool
    /\ extraction = idleExtraction
    /\ anon = idleAnon
    /\ subforum \in Subforums
    /\ pc = "content_idle"
    /\ requested = {}
    /\ init_page = None /\ final_page_url = None /\ total_pages = None
    /\ max_workers = 1
    /\ content_urls \in {u \in SeqsUpTo(PostUrls, MaxPosts) : u # <<>>}
    /\ tasks = content_urls
    /\ started = 0 /\ running = {}
    /\ results = NoFutures(Len(content_urls))
    /\ served = NoFutures(Len(content_urls))
    /\ open_collect = 0
    /\ data = <<>>
    /\ completed = None

\* The worker takes the next URL: _get_content calls _get_soup_safe(url).
ContentBegin ==
    /\ pc = "content_idle"
    /\ started < Len(tasks)
    /\ started' = started + 1
    /\ running' = {started + 1}
    /\ fetch' = GetSoupBegin(DEFAULT_MAX_RETRIES)
    /\ pc' = "content_fetch"
    /\ UNCHANGED <<pool, extraction, anon, completed, subforum, requested,
                   init_page,
                   final_page_url, total_pages, max_workers, tasks, results,
                   served, open_collect, content_urls, data>>

\* _get_soup has ended: _get_soup_safe returns, the page is processed and
\* validated, and _get_content returns.
ContentReturn ==
    /\ pc = "content_fetch"
    /\ fetch.status # "running"
    /\ \E doc \in PostDocs :
        LET content_page == GetSoupSafe(fetch, Some(doc))
        IN  /\ served' = [served EXCEPT ![started] = content_page]
            /\ results' = [results EXCEPT ![started] =
                              GetContent(tasks[started], subforum, content_page)]
    /\ requested' = requested \cup {tasks[started]}
    /\ running' = {}
    /\ pc' = "content_idle"
    /\ UNCHANGED <<fetch, pool, extraction, anon, completed, subforum,
                   init_page,
                   final_page_url, total_pages, max_workers, tasks, started,
                   open_collect, content_urls, data>>

NextContent == ContentBegin \/ FetchAttempt \/ ContentReturn

SpecContent == InitContent /\ [][NextContent]_vars

(***************************************************************************)
(* SpecPool: one fan-out of n tasks, counted: queued, running with a GET   *)
(* in flight, running between two GETs, done.  n goes beyond the size of   *)
(* the pool.                                                               *)
(***************************************************************************)
InitPool ==
    /\ fetch = idleFetch
    /\ extraction = idleExtraction
    /\ anon = idleAnon
    /\ CrawlIdle
    /\ pool \in {[n |-> k, queued |-> k, in_flight |-> 0, between |-> 0,
                  done |-> 0] : k \in 1..(MAX_WORKERS + MaxExtraTasks)}

\* A worker takes the next task from the queue.
PoolStart ==
    /\ pool.queued > 0
    /\ WorkerFree(pool.in_flight + pool.between, MAX_WORKERS)
    /\ pool' = [pool EXCEPT !.queued = @ - 1, !.between = @ + 1]
    /\ UNCHANGED <<fetch, crawlVars, extraction, anon>>

\* A running task calls requests.get.
PoolRequest ==
    /\ pool.between > 0
    /\ pool' = [pool EXCEPT !.between = @ - 1, !.in_flight = @ + 1]
    /\ UNCHANGED <<fetch, crawlVars, extraction, anon>>

\* requests.get returns or raises.
PoolResponse ==
    /\ pool.in_flight > 0
    /\ pool' = [pool EXCEPT !.in_flight = @ - 1, !.between = @ + 1]
    /\ UNCHANGED <<fetch, crawlVars, extraction, anon>>

\* A running task returns; its worker is free again.
PoolFinish ==
    /\ pool.between > 0
    /\ pool' = [pool EXCEPT !.between = @ - 1, !.done = @ + 1]
    /\ UNCHANGED <<fetch, crawlVars, extraction, anon>>

NextPool == PoolStart \/ PoolRequest \/ PoolResponse \/ PoolFinish

SpecPool == InitPool /\ [][NextPool]_vars

(***************************************************************************)
(* SpecExtract: the extraction functions applied to one post page, or the  *)
(* validation to one candidate record.  The page is a main-content         *)
(* container with up to MaxChildren elements; _process_content is called   *)
(* up to MaxCalls times on the same parsed tree.                           *)
(***************************************************************************)
MaxChildren == 3
MaxCalls == 2

Push(tag, userid, content, ipdatetime) ==
    Element("push", <<tag, userid, content, ipdatetime>>)

ExtractElements ==
    {Metaline(<<" ">> \o LABEL_TITLE, <<" ", "t", "\n">>),
     Metaline(LABEL_TITLE, <<" ">>),
     Metaline(LABEL_TITLE, KW_NEWS \o <<"t">>),
     Metaline(LABEL_TIME, <<"d">>),
     Element("article-metaline", <<None, Some(<<"t">>)>>),
     Element("article-metaline", <<Some(LABEL_TITLE), None>>),
     Push(Some(<<"+">>), Some(<<"v", " ">>), Some(<<"c">>), Some(<<"d">>)),
     Push(Some(<<"+">>), None, Some(<<"c">>), Some(<<"d">>)),
     Push(Some(<<"+">>), Some(<<"w">>), Some(<<"c">>), None),
     Push(None, Some(<<"x">>), None, Some(<<"e">>)),
     Element("text", <<Some(Body)>>),
     Element("text", <<Some(ShortBody)>>),
     Element("text", <<Some(RepostBody)>>),
     Element("f2", <<Some(<<"s">>)>>),
     Element("f6", <<Some(<<"g">>)>>)}

ExtractDocs ==
    {NoMainPost} \cup
    {[main |-> Some(children)] : children \in SeqsUpTo(ExtractElements, MaxChildren)}

\* The records _validate_contents is tried on: each field absent or present,
\* titles with each marker, contents around the length threshold.
Candidates ==
    [author : {None},
     title : {None, Some(<<>>), Some(<<"t">>)}
               \cup {Some(<<"t">> \o k) : k \in TitleKeywords},
     time : {None, Some(<<"d">>)},
     content : {None, Some(<<>>), Some(ShortBody), Some(Body), Some(RepostBody),
                Some(Body \o KW_REPOST_2), Some(KW_REPOST_1)},
     url : {<<MAIN_URL, "/bbs/KMT/M.1.html">>},
     subforum : {ArgStr("KMT")},
     comments : {<<>>}]

InitExtract ==
    /\ fetch = idleFetch
    /\ pool = idlePool
    /\ anon = idleAnon
    /\ CrawlIdle
    /\ \/ \E d \in ExtractDocs :
            extraction = [idleExtraction EXCEPT !.page = Some(d),
                                                !.bs_content = Some(d)]
       \/ \E c \in Candidates :
            extraction = [idleExtraction EXCEPT !.candidate = Some(c)]

\* _process_content(page_url, subforum, bs_content) on the parsed tree, which
\* it leaves without the elements it has decomposed.
ExtractProcess ==
    /\ extraction.bs_content # None
    /\ extraction.returned = None
    /\ Len(extraction.outputs) < MaxCalls
    /\ extraction' =
          [extraction EXCEPT
              !.outputs = Append(@, ProcessContent(<<MAIN_URL, "/bbs/KMT/M.1.html">>,
                                                   ArgStr("KMT"), extraction.bs_content[1])),
              !.bs_content = Some(Decomposed(@[1]))]
    /\ UNCHANGED <<fetch, pool, crawlVars, anon>>

\* _get_content(page_url, subforum), its fetch having given the page.
ExtractContent ==
    /\ extraction.bs_content # None
    /\ extraction.returned = None
    /\ extraction.outputs = <<>>
    /\ extraction' =
          [extraction EXCEPT
              !.returned = Some(GetContent(<<MAIN_URL, "/bbs/KMT/M.1.html">>,
                                           ArgStr("KMT"), extraction.bs_content)),
              !.bs_content = Some(Decomposed(@[1]))]
    /\ UNCHANGED <<fetch, pool, crawlVars, anon>>

\* _validate_contents(contents)
ExtractValidate ==
    /\ extraction.candidate # None
    /\ extraction.verdict = None
    /\ extraction' =
          [extraction EXCEPT !.verdict = Some(ValidateRule(extraction.candidate[1]))]
    /\ UNCHANGED <<fetch, pool, crawlVars, anon>>

NextExtract == ExtractProcess \/ ExtractContent \/ ExtractValidate

SpecExtract == InitExtract /\ [][NextExtract]_vars

(***************************************************************************)
(* Claims about crawl.                                                     *)
(***************************************************************************)

\* crawl has run its discovery and no stage was ever started.
DiscoveryOnly == pc \in {"discovered", "aborted", "raised"} /\ tasks = <<>>

\* One of the discovery failures: the entry page was not fetched, it has no
\* previous-page anchor, the anchor has no href, the href does not match
\* index<digits>.html, or the digits are not a positive number.
DiscoveryFailed ==
    /\ DiscoveryOnly
    /\ \/ init_page = None
       \/ \A i \in 1..Len(init_page[1]) : ~init_page[1][i].prev
       \/ final_page_url = None
       \/ RegexSearchIndex(final_page_url[1]) = None
       \/ ParseInt(RegexSearchIndex(final_page_url[1])[1]) <= 0

\* C3, as claimed: when the discovery has failed in any of these ways and
\* crawl has ended, it has returned None (no exception has left it).
C3_DiscoveryFailureReturnsNone ==
    (DiscoveryFailed /\ pc \in {"aborted", "raised"}) => pc = "aborted"

\* C4: when the fetched entry page has no anchor with the previous-page
\* label, crawl has returned None, the entry URL is the only URL requested,
\* no task was submitted or started, and crawl takes no further step.
C4_NoPrevAnchorNoFurtherRequest ==
    (/\ DiscoveryOnly
     /\ init_page # None
     /\ \A i \in 1..Len(init_page[1]) : ~init_page[1][i].prev) =>
        /\ pc = "aborted"
        /\ requested = {EntryUrl(subforum)}
        /\ tasks = <<>> /\ started = 0 /\ running = {}
        /\ ~ENABLED Next

C4_Witness ==
    /\ pc = "aborted"
    /\ init_page = Some(<<NavAnchor(FALSE, Some(OtherHref))>>)
    /\ requested = {EntryUrl(subforum)}

\* C5: when the previous-page href is index<N>.html with N >= 1 the page
\* count is N, and the collection stage has exactly the tasks of the pages
\* 1..N, in this order, each requesting entry_url/index{p}.html only.
C5_PageCountAndTasks ==
    /\ \A n \in 1..MaxPages :
        (pc = "discovered"
         /\ final_page_url = Some(<<"index">> \o FormatInt(n) \o <<".html">>)) =>
            total_pages = Some(n)
    /\ pc \in {"collect", "joined_urls"} =>
        /\ total_pages # None
        /\ Len(tasks) = total_pages[1]
        /\ \A p \in 1..total_pages[1] : tasks[p] = p
        /\ requested \ {EntryUrl(subforum)} \subseteq
              {EntryUrl(subforum) \o <<"/index">> \o FormatInt(p) \o <<".html">> :
                  p \in 1..total_pages[1]}
        /\ \A p \in 1..total_pages[1] :
              (p <= started /\ p \notin running) =>
                  EntryUrl(subforum) \o <<"/index">> \o FormatInt(p) \o <<".html">>
                      \in requested

C5_Witness ==
    /\ pc = "collect"
    /\ total_pages = Some(3)
    /\ tasks = <<1, 2, 3>>
    /\ started = 3 /\ running = {}
    /\ Cardinality(requested) = 4

\* The URLs an index page lists, read off the page itself.
UrlsListed(blocks) ==
    LET with == SelectSeq(blocks, LAMBDA b : b.a /\ b.href # None)
    IN  [j \in 1..Len(with) |-> <<MAIN_URL>> \o with[j].href[1]]

\* The first join is over: crawl goes on, or has returned None there.
AfterUrlJoin ==
    \/ pc = "joined_urls"
    \/ pc = "aborted" /\ tasks # <<>> /\ content_urls = <<>>

\* C6: at the first join, a page whose fetch failed has given None, the
\* flattened list holds the URLs of every fetched page, page after page,
\* and crawl has returned None exactly when this list is empty.
C6_CollectFailuresLocal ==
    AfterUrlJoin =>
        /\ \A i \in 1..Len(tasks) : (served[i] = None) = (results[i] = None)
        /\ content_urls =
              Concat([i \in 1..Len(tasks) |->
                        IF served[i] = None THEN <<>>
                        ELSE UrlsListed(served[i][1])])
        /\ (pc = "aborted") = (content_urls = <<>>)

C6_Witness ==
    /\ pc = "joined_urls"
    /\ Len(tasks) = 3
    /\ served[1] = None
    /\ served[2] # None /\ served[3] # None
    /\ Len(content_urls) = 3

\* The second join is over: crawl has returned its result, or None there.
AfterDataJoin ==
    \/ pc = "done"
    \/ pc = "aborted" /\ tasks # <<>> /\ content_urls # <<>>

\* Entry i of the URL list was fetched, has a main-content container and
\* its candidate record passes the validation.
Accepted(i) ==
    /\ served[i] # None
    /\ served[i][1].main # None
    /\ ValidateContents(ProcessContent(tasks[i], subforum, served[i][1])[1])

\* C7: at the second join the result holds one record for each accepted
\* entry of the URL list, in the order of the list, and nothing else; crawl
\* has returned None exactly when there is no record, and nothing is raised.
C7_OneRecordPerAcceptedPost ==
    /\ pc = "raised" => tasks = <<>>
    /\ AfterDataJoin =>
        LET kept == SelectSeq([i \in 1..Len(tasks) |-> i], Accepted)
        IN  /\ tasks = content_urls
            /\ Len(data) = Len(kept)
            /\ \A k \in 1..Len(kept) :
                  data[k] = ProcessContent(content_urls[kept[k]], subforum,
                                           served[kept[k]][1])[1]
            /\ (pc = "aborted") = (data = <<>>)

C7_Witness ==
    /\ pc = "done"
    /\ Len(content_urls) = 3
    /\ Len(data) = 2
    /\ \E i \in 1..3 : served[i] = Some(AnnouncementPost)
    /\ \A i \in 1..3 : served[i] # None

\* C8: while a collection task is queued or running no extraction task has
\* started and no post page was requested; once the extraction stage is
\* open, no collection task is left.
C8_StagesDoNotOverlap ==
    /\ pc \in {"start", "discovered", "collect", "joined_urls"} =>
          requested \cap PostUrls = {}
    /\ (pc \in {"extract", "done"} \/ requested \cap PostUrls # {}) =>
          open_collect = 0

C8_Witness ==
    /\ pc = "extract"
    /\ running # {}
    /\ requested \cap PostUrls # {}
    /\ open_collect = 0

\* C10: at the join of the collection stage the set of collected URLs is
\* the set of the URLs listed on the pages that were fetched, whatever the
\* pool size (1 or 20) and the order in which the tasks ran: every page task
\* has been started and has finished before the set is taken.
C10_SameUrlSetForEveryPool ==
    AfterUrlJoin =>
      /\ started = Len(tasks) /\ running = {}
      /\ Range(content_urls) =
            UNION {IF served[i] = None THEN {}
                   ELSE Range(UrlsListed(served[i][1])) : i \in 1..Len(tasks)}

C10_Witness ==
    /\ pc = "joined_urls"
    /\ max_workers = 1
    /\ Len(tasks) = 3
    /\ served[2] = None
    /\ Cardinality(Range(content_urls)) = 2

(***************************************************************************)
(* Claims about the pool.                                                  *)
(***************************************************************************)
\* C9: at every moment of a fan-out at most 20 tasks are running, so at
\* most 20 GET requests are in flight, however many tasks were submitted.
C9_AtMostTwentyRunning ==
    /\ pool.in_flight + pool.between <= 20
    /\ pool.in_flight <= 20
    /\ Cardinality(running) <= 20
    /\ pool.queued + pool.in_flight + pool.between + pool.done = pool.n

C9_Witness ==
    /\ pool.n > 20
    /\ pool.in_flight = 20
    /\ pool.queued > 0

(***************************************************************************)
(* Claims about the records of a result.                                   *)
(***************************************************************************)
\* crawl has returned a result: the records of data.
Returned == pc = "done"

\* C11, as claimed: every record of a result returned by crawl has a
\* non-empty title, a non-empty time, a non-empty url and a content of at
\* least 10 characters.
C11_RecordFieldsNonEmpty ==
    Returned =>
        \A k \in 1..Len(data) :
            /\ data[k].title # None /\ data[k].title[1] # <<>>
            /\ data[k].time # None /\ data[k].time[1] # <<>>
            /\ data[k].url # <<>>
            /\ data[k].content # None /\ Len(data[k].content[1]) >= 10

\* C11, amended: every record of a result returned by crawl has a title and
\* a time that are not None (either may be the empty string), a non-empty
\* url and a content of at least 10 characters.
C11_RecordFieldsPresent ==
    Returned =>
        \A k \in 1..Len(data) :
            /\ data[k].title # None
            /\ data[k].time # None
            /\ data[k].url # <<>>
            /\ data[k].content # None /\ Len(data[k].content[1]) >= 10

C11_Witness ==
    /\ Returned
    /\ Len(data) = 2
    /\ served[1] = Some(BlankTitlePost)
    /\ data[1].title = Some(<<>>)
    /\ served[2] = Some(GoodPost)

\* C12, as claimed: no record of a result returned by crawl has a title or
\* a content that contains the announcement marker, the news marker or one
\* of the two repost markers.
C12_NoExclusionKeyword ==
    Returned =>
        \A k \in 1..Len(data) :
            \A kw \in {KW_ANNOUNCEMENT, KW_NEWS, KW_REPOST_1, KW_REPOST_2} :
                /\ ~Contains(data[k].title[1], kw)
                /\ ~Contains(data[k].content[1], kw)

\* C12, amended: no record of a result returned by crawl has a title that
\* contains the announcement marker, the news marker or one of the two
\* repost markers, or a content that contains one of the two repost markers.
C12_NoKeywordWhereTested ==
    Returned =>
        \A k \in 1..Len(data) :
            /\ \A kw \in {KW_ANNOUNCEMENT, KW_NEWS, KW_REPOST_1, KW_REPOST_2} :
                  ~Contains(data[k].title[1], kw)
            /\ \A kw \in {KW_REPOST_1, KW_REPOST_2} :
                  ~Contains(data[k].content[1], kw)

C12_Witness ==
    /\ Returned
    /\ Len(tasks) = 2
    /\ served[1] = Some(RepostBodyPost)
    /\ served[2] = Some(NewsBodyPost)
    /\ Len(data) = 1
    /\ Contains(data[1].content[1], KW_NEWS)

(***************************************************************************)
(* Claims about the extraction functions.                                  *)
(***************************************************************************)
\* C13: the verdict of the validation is acceptance exactly when title and
\* time are both present, the title holds none of the four markers, the
\* content (absent: length 0) has at least 10 characters and holds neither
\* repost marker; the rule that rejects is the first of these, in this
\* order, that fails; a content of exactly 10 characters is accepted.
C13_ValidationRules ==
    extraction.verdict # None =>
        LET c == extraction.candidate[1]
            v == extraction.verdict[1]
            present == c.title # None /\ c.time # None
            titleClean ==
                \A kw \in {KW_ANNOUNCEMENT, KW_NEWS, KW_REPOST_1, KW_REPOST_2} :
                    ~Contains(c.title[1], kw)
            length == IF c.content = None THEN 0 ELSE Len(c.content[1])
            longEnough == length >= 10
            contentClean ==
                \A kw \in {KW_REPOST_1, KW_REPOST_2} : ~Contains(c.content[1], kw)
        IN  /\ (v = 0) <=> (present /\ titleClean /\ longEnough /\ contentClean)
            /\ (v = 1) <=> ~present
            /\ (v = 2) <=> (present /\ ~titleClean)
            /\ (v = 3) <=> (present /\ titleClean /\ ~longEnough)
            /\ (v = 4) <=> (present /\ titleClean /\ longEnough /\ ~contentClean)
            /\ ValidateContents(c) <=> (v = 0)

C13_Witness ==
    /\ extraction.verdict = Some(0)
    /\ Len(extraction.candidate[1].content[1]) = 10

\* A metaline of the page gives the value of label: it has both spans and
\* its tag text, stripped, is label.
Gives(doc, label) ==
    \E i \in 1..Len(doc.main[1]) :
        LET e == doc.main[1][i]
        IN  /\ e.cls = "article-metaline"
            /\ e.parts[1] # None /\ e.parts[2] # None
            /\ Strip(e.parts[1][1]) = label

\* C14: for a post page on which no metaline gives the title, or none gives
\* the time, _get_content returns None, whatever else the page holds.
C14_MissingTitleOrTimeGivesNull ==
    (/\ extraction.returned # None
     /\ extraction.page[1].main # None
     /\ ~(Gives(extraction.page[1], LABEL_TITLE)
            /\ Gives(extraction.page[1], LABEL_TIME))) =>
        extraction.returned[1] = None

C14_Witness ==
    /\ extraction.returned = Some(None)
    /\ extraction.page[1].main # None
    /\ Gives(extraction.page[1], LABEL_TIME)
    /\ ~Gives(extraction.page[1], LABEL_TITLE)
    /\ \E i, j \in 1..Len(extraction.page[1].main[1]) :
          /\ extraction.page[1].main[1][i] = Element("text", <<Some(Body)>>)
          /\ extraction.page[1].main[1][j].cls = "push"

\* C15: the comments of the record are the push elements of the page that
\* have both a userid and an ipdatetime span, in document order, each with
\* its stripped fields; the other push elements are left out and the record
\* is returned all the same; a page without push element has no comment.
C15_CommentsAreCompletePushes ==
    (Len(extraction.outputs) >= 1 /\ extraction.page[1].main # None) =>
        LET children == extraction.page[1].main[1]
            complete(i) == /\ children[i].cls = "push"
                           /\ children[i].parts[2] # None
                           /\ children[i].parts[4] # None
            idx == SelectSeq([i \in 1..Len(children) |-> i], complete)
        IN  /\ extraction.outputs[1] # None
            /\ Len(extraction.outputs[1][1].comments) = Len(idx)
            /\ \A k \in 1..Len(idx) :
                  LET c == extraction.outputs[1][1].comments[k]
                      e == children[idx[k]]
                  IN  /\ c.userid = Strip(e.parts[2][1])
                      /\ c.ipdatetime = Strip(e.parts[4][1])
                      /\ c.push_tag = IF e.parts[1] = None THEN None
                                      ELSE Some(Strip(e.parts[1][1]))
                      /\ c.content = IF e.parts[3] = None THEN None
                                     ELSE Some(Strip(e.parts[3][1]))

C15_Witness ==
    /\ Len(extraction.outputs) = 1
    /\ extraction.outputs[1] # None
    /\ Len(extraction.page[1].main[1]) = 3
    /\ \A i \in 1..3 : extraction.page[1].main[1][i].cls = "push"
    /\ Len(extraction.outputs[1][1].comments) = 2
    /\ extraction.outputs[1][1].comments[1].userid = <<"x">>
    /\ extraction.outputs[1][1].comments[2].userid = <<"v">>

\* C16, as claimed: two calls of _process_content on the same parsed
\* document, with the same URL and subforum, return identical records.
C16_ExtractionIdempotent ==
    Len(extraction.outputs) >= 2 => extraction.outputs[1] = extraction.outputs[2]

(***************************************************************************)
(* Claims about the argument of crawl, failures and termination.           *)
(***************************************************************************)
\* C17, as claimed: called with a sub-forum argument that is empty or is
\* not a string, crawl issues no HTTP request and returns None.
C17_InvalidSubforumNoRequest ==
    ~(subforum.is_str /\ subforum.text # "") =>
        /\ requested = {}
        /\ pc \in {"start", "aborted"}

\* C18: when the fetch of its post page has failed (a 404, a transient
\* failure on the last attempt, a URL that cannot be requested),
\* _get_content has returned None; the URLs taken before have the record or
\* the None their own page gave, and the worker takes the next URL.
C18_FetchFailureGivesNull ==
    (pc = "content_idle" /\ started >= 1) =>
        /\ fetch.status # "returned" =>
              served[started] = None /\ results[started] = None
        /\ \A i \in 1..started : (results[i] # None) <=> Accepted(i)
        /\ started < Len(tasks) => ENABLED ContentBegin

C18_Witness ==
    /\ pc = "content_idle"
    /\ started = 2
    /\ fetch.status = "raised"
    /\ fetch.error \in {Some("404"), Some("invalid_url")}
    /\ results[2] = None
    /\ results[1] # None

\* C19, as claimed: every request returning or timing out, crawl terminates
\* having returned a result or None: once no thread of crawl has a step
\* left, crawl is Done or Aborted.
C19_CrawlTerminates == ~ENABLED Next => pc \in {"done", "aborted"}

\* C20: a fetch whose attempts so far all failed with a transient failure,
\* fewer than max_retries of them, goes on to its next attempt; when the
\* first k-1 attempts failed with a transient failure and attempt k
\* succeeds, the fetch has returned the document of response k after
\* exactly k GET requests and k-1 sleeps.
C20_SuccessAfterTransientFailures ==
    LET outs == fetch.outcomes
        k == Len(outs)
    IN  /\ (fetch.max_retries > 0 /\ k < fetch.max_retries /\ AllTransient(outs))
              => fetch.status = "running"
        /\ (k >= 1 /\ AllTransient(SubSeq(outs, 1, k - 1)) /\ outs[k] = "ok") =>
              /\ k <= fetch.max_retries
              /\ fetch.status = "returned"
              /\ fetch.soup = Some(k)
              /\ fetch.requests = k
              /\ fetch.sleeps = k - 1

C20_Witness ==
    /\ fetch.max_retries = DEFAULT_MAX_RETRIES
    /\ fetch.outcomes = <<"timeout", "ok">>
    /\ fetch.status = "returned"
    /\ fetch.requests = 2

(***************************************************************************)
(* Claims about the URL lists.                                             *)
(***************************************************************************)
\* C21: for a fetched index page the collection task returns a list, never
\* None: the site root followed by the href, for each title block whose
\* anchor has an href, in document order; the blocks with no anchor or no
\* href are left out alone, and a page with no usable block gives <<>>.
C21_PageUrlsInDocumentOrder ==
    \A i \in 1..Len(served) :
        (pc \in {"collect", "joined_urls"} /\ served[i] # None) =>
            /\ results[i] # None
            /\ results[i][1] = UrlsListed(served[i][1])
            /\ \A k \in 1..Len(results[i][1]) : Head(results[i][1][k]) = MAIN_URL

C21_Witness ==
    /\ pc = "collect"
    /\ Len(tasks) >= 2
    /\ served[1] = Some(<<TitleBlock(FALSE, None),
                          TitleBlock(TRUE, Some(<<"/bbs/KMT/M.2.html">>))>>)
    /\ results[1] = Some(<<(<<MAIN_URL, "/bbs/KMT/M.2.html">>)>>)
    /\ served[2] = Some(<<TitleBlock(TRUE, None)>>)
    /\ results[2] = Some(<<>>)

\* C30: at the first join the URL list is the concatenation, by ascending
\* page number, of the URLs each fetched page lists in document order,
\* whatever the order in which the collection tasks finished; a URL listed
\* twice is in the list twice, and the extraction stage has one task per
\* entry of the list, each of which has run when crawl returns.
C30_ConcatenationByPageNoDedup ==
    /\ AfterUrlJoin =>
          /\ \A i \in 1..Len(tasks) : tasks[i] = i
          /\ Len(completed[1]) = Len(tasks)
          /\ content_urls =
                Concat([i \in 1..Len(tasks) |->
                          IF served[i] = None THEN <<>>
                          ELSE UrlsListed(served[i][1])])
    /\ (pc \in {"extract", "done"} \/ AfterDataJoin) => tasks = content_urls
    /\ AfterDataJoin =>
          /\ started = Len(content_urls) /\ running = {}
          /\ Len(completed[1]) = Len(content_urls)
          /\ \A i \in 1..Len(content_urls) : content_urls[i] \in requested

C30_Witness ==
    /\ pc = "joined_urls"
    /\ completed = Some(<<2, 1>>)
    /\ Len(content_urls) = 3
    /\ content_urls[1] = content_urls[3]
    /\ content_urls[1] # content_urls[2]
    /\ Len(served[1][1]) = 1

(***************************************************************************)
(* Claims about the order of the result.                                   *)
(***************************************************************************)
\* The records of the finished tasks, taken in the order order.
RecordsInOrder(order) ==
    NotNone([k \in 1..Len(order) |-> results[order[k]]])

\* C27, as claimed: the records of the result are in the order in which
\* their extraction tasks completed.
C27_CompletionOrder ==
    pc = "done" => data = RecordsInOrder(completed[1])

\* C27, amended: the records of the result are in the order of their URLs in
\* the flattened URL list, the order in which the extraction tasks were
\* submitted, whatever the order in which the tasks completed.
C27_SubmissionOrder ==
    pc = "done" =>
        /\ data = RecordsInOrder([i \in 1..Len(content_urls) |-> i])
        /\ \A k, l \in 1..Len(data) :
              k < l => \E i, j \in 1..Len(content_urls) :
                          /\ i < j
                          /\ data[k].url = content_urls[i]
                          /\ data[l].url = content_urls[j]

C27_Witness ==
    /\ pc = "done"
    /\ completed = Some(<<2, 1>>)
    /\ Len(data) = 2
    /\ content_urls[1] # content_urls[2]
    /\ data[1].url = content_urls[1]
    /\ data[2].url = content_urls[2]

(***************************************************************************)
(* Claims about the backoff and the retry budget.                          *)
(***************************************************************************)
\* C28: the calls of a fetch alternate, a GET first, a sleep only after a
\* failed GET that another GET follows: a fetch still running has slept
\* after each of its attempts, a fetch that has ended after k attempts has
\* slept k-1 times and its last call is a GET, be it a success, a 404 or the
\* last failure.
C28_SleepOnlyBetweenAttempts ==
    LET t == fetch.trace
    IN  /\ \A i \in 1..Len(t) : t[i] = IF i % 2 = 1 THEN "get" ELSE "sleep"
        /\ \A i \in 1..Len(t) :
              t[i] = "sleep" => fetch.outcomes[i \div 2] \in Transient
        /\ fetch.status = "running" =>
              Len(t) = 2 * fetch.requests /\ fetch.sleeps = fetch.requests
        /\ (fetch.status # "running" /\ fetch.requests >= 1) =>
              /\ Len(t) = 2 * fetch.requests - 1
              /\ fetch.sleeps = fetch.requests - 1
        /\ fetch.requests = 0 => fetch.sleeps = 0 /\ t = <<>>

C28_Witness ==
    /\ fetch.max_retries = DEFAULT_MAX_RETRIES
    /\ fetch.status = "raised"
    /\ fetch.trace = <<"get", "sleep", "get", "sleep", "get">>
    /\ fetch.outcomes = <<"timeout", "http_error", "timeout">>

\* C29: a fetch with max_retries <= 0 issues no GET and sleeps never, it
\* raises nothing and returns None, and _get_soup_safe hands this None on.
C29_NoAttemptWithoutBudget ==
    fetch.max_retries <= 0 =>
        /\ fetch.requests = 0 /\ fetch.trace = <<>>
        /\ fetch.status = "returned_none"
        /\ fetch.error = None /\ fetch.soup = None
        /\ GetSoupSafe(fetch, Some(GoodPost)) = None

C29_Witness ==
    /\ fetch.max_retries = -1
    /\ fetch.status = "returned_none"
    /\ fetch.requests = 0

(***************************************************************************)
(* Claim about what the extractor removes.                                 *)
(***************************************************************************)
\* C26: the comments of the record are read from the page as it was fetched;
\* afterwards the tree holds no push element, no metaline and no f2 or f6
\* span, and the content of the record is the stripped text of the other
\* elements alone; the element list of _get_comments has one entry per push
\* element and is never shorter than the comments.
C26_RemovedElementsLeaveNoText ==
    (Len(extraction.outputs) >= 1 /\ extraction.page[1].main # None) =>
        LET children == extraction.page[1].main[1]
            out == extraction.outputs[1][1]
            gone == {"push", "article-metaline", "f2", "f6"}
            kept == SelectSeq(children, LAMBDA e : e.cls \notin gone)
        IN  /\ out.comments = GetComments(OfClass(children, "push"))
            /\ \A i \in 1..Len(extraction.bs_content[1].main[1]) :
                  extraction.bs_content[1].main[1][i].cls \notin gone
            /\ out.content = Some(Strip(TextOf(kept)))
            /\ Len(CommentDivs(children)) =
                  Cardinality({i \in 1..Len(children) : children[i].cls = "push"})
            /\ Len(CommentDivs(children)) >= Len(out.comments)

C26_Witness ==
    /\ Len(extraction.outputs) = 1
    /\ extraction.page[1].main # None
    /\ LET children == extraction.page[1].main[1]
       IN  /\ Len(children) = 3
           /\ children[1].cls = "push" /\ children[1].parts[2] = None
           /\ children[2].cls = "f6"
           /\ children[3] = Element("text", <<Some(Body)>>)
    /\ extraction.outputs[1][1].comments = <<>>
    /\ extraction.outputs[1][1].content = Some(Strip(Body))

(***************************************************************************)
(* UserAnonymiser (pipeline/anonymiser.py).  A name is the str it is, an   *)
(* id the sequence of its pieces: the prefix "user_" and single            *)
(* characters.  The digests stand for md5, random.Random(...).choices and  *)
(* uuid5: fixed functions of the name under the seed, whose values differ  *)
(* from name to name and whose prefixes may agree.                         *)
(***************************************************************************)
MaxIdLength == 2
MaxAnonCalls == 3

Names == {"a", "b", "c"}

Methods == {"hash", "random_string", "uuid", "sequential", "numeric"}

ArgNA == [is_str |-> FALSE, text |-> "NA"]

\* What anonymise_name is called with: None, pd.NA, "" and the names.
NameArgs == {ArgNone, ArgNA, ArgStr("")} \cup {ArgStr(n) : n \in Names}

\* hashlib.md5(f"{name}{seed}").hexdigest()
HexDigest(name) ==
    CASE name = "a" -> <<"1", "c">>
      [] name = "b" -> <<"1", "d">>
      [] OTHER      -> <<"2", "a">>

\* temp_random.choices(chars, k): the characters drawn for the name, as
\* many as asked for.
RandomChoices(name) ==
    CASE name = "a" -> <<"k", "3", "p", "0">>
      [] name = "b" -> <<"x", "9", "m", "2">>
      [] OTHER      -> <<"x", "4", "q", "7">>

\* str(uuid.uuid5(namespace, f"{name}{seed}")).replace('-', '')
UuidStr(name) ==
    CASE name = "a" -> <<"e", "0">>
      [] name = "b" -> <<"5", "f">>
      [] OTHER      -> <<"e", "7">>

\* str(int(hashlib.md5(f"{name}{seed}").hexdigest(), 16))
HashIntStr(name) ==
    CASE name = "a" -> <<"7">>
      [] name = "b" -> <<"4", "5">>
      [] OTHER      -> <<"4", "6">>

\* s[:n]
Prefix(s, n) == SubSeq(s, 1, IF n < Len(s) THEN n ELSE Len(s))

\* s.zfill(w), and the 0{w}d of an f-string: zeros in front up to width w.
RECURSIVE ZeroPad(_, _)
ZeroPad(ds, w) == IF Len(ds) >= w THEN ds ELSE ZeroPad(<<"0">> \o ds, w)

USER_PREFIX == "user_"
UNKNOWN == <<"UNKNOWN">>

NoMapping == [k \in {} |-> k]

\* UserAnonymiser(method, seed, id_length): every method is accepted.  op,
\* name, anon_id, filepath, result and raised tell the last call, calls
\* counts the calls; order (the names in the order of their first
\* anonymisation) and loaded (the rows of the last file loaded) are history.
Construct(method, id_length) ==
    [state |-> "constructed", method |-> method, id_length |-> id_length,
     mapping |-> NoMapping, reverse_mapping |-> NoMapping, counter |-> 1,
     op |-> "__init__", name |-> ArgNone, anon_id |-> <<>>, filepath |-> 0,
     result |-> None, raised |-> FALSE, calls |-> 0,
     order |-> <<>>, loaded |-> None]

HashId(an, name) == <<USER_PREFIX>> \o Prefix(HexDigest(name), an.id_length)

RandomStringId(an, name) ==
    <<USER_PREFIX>> \o Prefix(RandomChoices(name), an.id_length)

UuidId(an, name) == <<USER_PREFIX>> \o Prefix(UuidStr(name), an.id_length)

SequentialId(an, name) ==
    <<USER_PREFIX>> \o ZeroPad(FormatInt(an.counter), an.id_length)

NumericId(an, name) ==
    ZeroPad(Prefix(HashIntStr(name), an.id_length), an.id_length)

\* The id the method of the instance generates for a name.
GenerateId(an, name) ==
    CASE an.method = "hash"          -> HashId(an, name)
      [] an.method = "random_string" -> RandomStringId(an, name)
      [] an.method = "uuid"          -> UuidId(an, name)
      [] an.method = "sequential"    -> SequentialId(an, name)
      [] OTHER                       -> NumericId(an, name)

Called(an, op) ==
    [an EXCEPT !.op = op, !.name = ArgNone, !.anon_id = <<>>, !.filepath = 0,
               !.result = None, !.raised = FALSE, !.calls = @ + 1]

\* Mutant: a name is given a new id at every call.
AnonymiseNameNoLookup(an, original_name) ==
    LET c == [Called(an, "anonymise_name") EXCEPT !.name = original_name]
        n == original_name.text
    IN  IF ~original_name.is_str \/ n = ""
        THEN [c EXCEPT !.result = Some(UNKNOWN)]
        ELSE IF an.method \notin Methods
        THEN [c EXCEPT !.raised = TRUE]
        ELSE LET id == GenerateId(an, n)
             IN  [c EXCEPT !.counter = IF an.method = "sequential"
                                       THEN @ + 1 ELSE @,
                           !.mapping = (n :> id) @@ an.mapping,
                           !.reverse_mapping = (id :> n) @@ an.reverse_mapping,
                           !.order = IF n \in Range(@) THEN @ ELSE Append(@, n),
                           !.result = Some(id)]

\* anonymise_name(original_name): 'UNKNOWN' for None, NA and "", the stored
\* id of a name already in mapping, else the id generated by the method,
\* stored in mapping and reverse_mapping; ValueError for an unknown method.
AnonymiseName(an, original_name) ==
    LET c == [Called(an, "anonymise_name") EXCEPT !.name = original_name]
        n == original_name.text
    IN  IF ~original_name.is_str \/ n = ""
        THEN [c EXCEPT !.result = Some(UNKNOWN)]
        ELSE IF n \in DOMAIN an.mapping
        THEN [c EXCEPT !.result = Some(an.mapping[n])]
        ELSE IF an.method \notin Methods
        THEN [c EXCEPT !.raised = TRUE]
        ELSE LET id == GenerateId(an, n)
             IN  [c EXCEPT !.counter = IF an.method = "sequential"
                                       THEN @ + 1 ELSE @,
                           !.mapping = (n :> id) @@ an.mapping,
                           !.reverse_mapping = (id :> n) @@ an.reverse_mapping,
                           !.order = Append(@, n),
                           !.result = Some(id)]

\* reverse_mapping.get(anon_id)
ReverseGet(an, anon_id) ==
    IF anon_id \in DOMAIN an.reverse_mapping
    THEN Some(an.reverse_mapping[anon_id]) ELSE None

\* deanonymise_id(anon_id)
DeanonymiseId(an, anon_id) ==
    [Called(an, "deanonymise_id") EXCEPT !.anon_id = anon_id,
                                         !.result = Some(ReverseGet(an, anon_id))]

Row(original, anonymous) == [original |-> original, anonymous |-> anonymous]

\* The mapping files read: rows of names with ids of the user_ form, as the
\* hash, random_string, uuid and sequential methods write them.
MappingFiles ==
    << <<Row("a", <<USER_PREFIX, "0", "1">>), Row("b", <<USER_PREFIX, "0", "3">>)>>,
       <<Row("a", <<USER_PREFIX, "1", "c">>), Row("c", <<USER_PREFIX, "2">>)>>,
       <<Row("b", <<USER_PREFIX, "e">>)>> >>

\* dict(zip(keys, values)): a later row replaces an earlier one of its key.
RECURSIVE DictZip(_, _, _)
DictZip(rows, key, value) ==
    IF rows = <<>> THEN NoMapping
    ELSE LET r == rows[Len(rows)]
         IN  (r[key] :> r[value]) @@ DictZip(SubSeq(rows, 1, Len(rows) - 1), key, value)

\* aid.startswith('user_') and aid.split('_')[1].isdigit()
IsNumericUserId(aid) ==
    /\ Len(aid) >= 2 /\ aid[1] = USER_PREFIX
    /\ \A i \in 2..Len(aid) : IsDigit(aid[i])

\* max(..., default=0) of int(aid.split('_')[1]) over the numeric user ids.
MaxNum(ids) ==
    LET nums == {ParseInt(Tail(aid)) : aid \in {i \in ids : IsNumericUserId(i)}}
    IN  IF nums = {} THEN 0 ELSE CHOOSE m \in nums : \A k \in nums : k <= m

\* Mutant: the counter is left as it was.
LoadMappingKeepsCounter(an, filepath) ==
    LET rows == MappingFiles[filepath]
        mapping == DictZip(rows, "original", "anonymous")
    IN  [Called(an, "load_mapping") EXCEPT
            !.filepath = filepath,
            !.mapping = mapping,
            !.reverse_mapping = DictZip(rows, "anonymous", "original"),
            !.loaded = Some(rows)]

\* load_mapping(filepath): mapping and reverse_mapping are replaced by the
\* rows of the file; with the sequential method the counter moves past the
\* largest numeric user id of the file.
LoadMapping(an, filepath) ==
    LET rows == MappingFiles[filepath]
        mapping == DictZip(rows, "original", "anonymous")
    IN  [Called(an, "load_mapping") EXCEPT
            !.filepath = filepath,
            !.mapping = mapping,
            !.reverse_mapping = DictZip(rows, "anonymous", "original"),
            !.counter = IF an.method = "sequential"
                        THEN MaxNum({mapping[n] : n \in DOMAIN mapping}) + 1
                        ELSE @,
            !.loaded = Some(rows)]

(***************************************************************************)
(* SpecAnon: one UserAnonymiser, constructed with any method and           *)
(* id_length, then called up to MaxAnonCalls times.                        *)
(***************************************************************************)
InitAnon ==
    /\ fetch = idleFetch
    /\ pool = idlePool
    /\ extraction = idleExtraction
    /\ CrawlIdle
    /\ anon = idleAnon

AnonConstruct ==
    /\ anon.state = "none"
    /\ \E method \in Methods \cup {"invalid"}, id_length \in 1..MaxIdLength :
          anon' = Construct(method, id_length)
    /\ UNCHANGED <<fetch, pool, extraction, crawlVars>>

AnonAnonymise ==
    /\ anon.state = "constructed"
    /\ anon.calls < MaxAnonCalls
    /\ \E original_name \in NameArgs : anon' = AnonymiseName(anon, original_name)
    /\ UNCHANGED <<fetch, pool, extraction, crawlVars>>

AnonDeanonymise ==
    /\ anon.state = "constructed"
    /\ anon.calls < MaxAnonCalls
    /\ \E anon_id \in DOMAIN anon.reverse_mapping \cup {UNKNOWN} :
          anon' = DeanonymiseId(anon, anon_id)
    /\ UNCHANGED <<fetch, pool, extraction, crawlVars>>

AnonLoad ==
    /\ anon.state = "constructed"
    /\ anon.calls < MaxAnonCalls
    /\ \E filepath \in 1..Len(MappingFiles) : anon' = LoadMapping(anon, filepath)
    /\ UNCHANGED <<fetch, pool, extraction, crawlVars>>

NextAnon == AnonConstruct \/ AnonAnonymise \/ AnonDeanonymise \/ AnonLoad

SpecAnon == InitAnon /\ [][NextAnon]_vars

(***************************************************************************)
(* Claims about the anonymiser.                                            *)
(***************************************************************************)
\* C22: on an instance that was only asked to anonymise and to deanonymise,
\* deanonymise_id gives back the name of every id in mapping, and each id of
\* reverse_mapping is the id of its name: the two stay inverse.
C22_RoundTrip ==
    (anon.state = "constructed" /\ anon.loaded = None) =>
        /\ \A n \in DOMAIN anon.mapping :
              ReverseGet(anon, anon.mapping[n]) = Some(n)
        /\ \A id \in DOMAIN anon.reverse_mapping :
              /\ anon.reverse_mapping[id] \in DOMAIN anon.mapping
              /\ anon.mapping[anon.reverse_mapping[id]] = id

\* C23: a call of anonymise_name leaves the id of every name already in
\* mapping as it is; called with such a name it returns this id and changes
\* neither mapping nor reverse_mapping nor the counter; called with None, NA
\* or "" it returns 'UNKNOWN' and changes none of them either.
C23_AnonymiseStable ==
    [][(/\ anon.state = "constructed"
        /\ anon'.calls = anon.calls + 1
        /\ anon'.op = "anonymise_name") =>
           LET x == anon'.name
               same == /\ anon'.mapping = anon.mapping
                       /\ anon'.reverse_mapping = anon.reverse_mapping
                       /\ anon'.counter = anon.counter
                       /\ ~anon'.raised
           IN  /\ \A n \in DOMAIN anon.mapping :
                     n \in DOMAIN anon'.mapping /\ anon'.mapping[n] = anon.mapping[n]
               /\ (x.is_str /\ x.text \in DOMAIN anon.mapping) =>
                     same /\ anon'.result = Some(anon.mapping[x.text])
               /\ (~x.is_str \/ x.text = "") =>
                     same /\ anon'.result = Some(UNKNOWN)]_vars

C23_Witness ==
    /\ anon.state = "constructed"
    /\ anon.method = "sequential"
    /\ anon.calls = 3
    /\ anon.op = "anonymise_name"
    /\ anon.name = ArgStr("a")
    /\ anon.order = <<"a", "b">>
    /\ anon.result = Some(anon.mapping["a"])
    /\ anon.counter = 3

\* C24: no instance exists whose method is none of the five.
C24_InvalidMethodRejected ==
    anon.state = "constructed" => anon.method \in Methods

\* C25: on a sequential instance that loaded no file the i-th name first
\* anonymised has the id user_ and i padded with zeros to id_length, and the
\* ids of different names differ; once a file is loaded the counter is above
\* the number of every numeric user id of the file, and the id of a name that
\* is not of the file is none of the ids of the file.
C25_SequentialIds ==
    (anon.state = "constructed" /\ anon.method = "sequential") =>
        /\ anon.loaded = None =>
              /\ DOMAIN anon.mapping = Range(anon.order)
              /\ anon.counter = Len(anon.order) + 1
              /\ \A i \in 1..Len(anon.order) :
                    anon.mapping[anon.order[i]] =
                       <<USER_PREFIX>> \o ZeroPad(FormatInt(i), anon.id_length)
              /\ \A m, n \in DOMAIN anon.mapping :
                    m # n => anon.mapping[m] # anon.mapping[n]
        /\ anon.loaded # None =>
              LET rows == anon.loaded[1]
                  ids == {rows[i].anonymous : i \in 1..Len(rows)}
                  names == {rows[i].original : i \in 1..Len(rows)}
              IN  /\ \A aid \in ids :
                        IsNumericUserId(aid) => anon.counter > ParseInt(Tail(aid))
                  /\ \A n \in DOMAIN anon.mapping :
                        n \notin names => anon.mapping[n] \notin ids

C25_Witness ==
    /\ anon.state = "constructed"
    /\ anon.method = "sequential"
    /\ anon.id_length = 2
    /\ anon.loaded = Some(MappingFiles[1])
    /\ anon.op = "anonymise_name"
    /\ anon.name = ArgStr("c")
    /\ anon.result = Some(<<USER_PREFIX, "0", "4">>)
    /\ anon.counter = 5

====
